---------------------------- MODULE Spec2Model ----------------------------
(***************************************************************************)
(* Heesch numbers of polyiamonds: the triangular grid, the polyiamond      *)
(* value with its twelve images, the fixed/free enumerator, the placement  *)
(* generator, the SAT formulation of a corona and the corona loop.         *)
(*                                                                         *)
(* A cell is a pair <<x, y>>.  Cartesian points are kept exactly, as pairs *)
(* of integers <<X, Y>> standing for the point (X/4, Y*sqrt(3)/12): a cell *)
(* centre (x*0.5, y*h + h/3) or (x*0.5, y*h + 2h/3), with h = sqrt(3)/2,   *)
(* is <<2x, 6y+2>> or <<2x, 6y+4>>, and the squared distance between two   *)
(* points is (3*dX^2 + dY^2)/48.                                           *)
(***************************************************************************)
EXTENDS Integers, Sequences, FiniteSets, TLC

-----------------------------------------------------------------------------
(* grid.py *)

IsUp(c) == (c[1] + c[2]) % 2 = 0

IsDown(c) == (c[1] + c[2]) % 2 = 1

\* neighbors with the list of an up triangle for every cell
NeighborListOfUp(c) ==
    << <<c[1] - 1, c[2]>>, <<c[1] + 1, c[2]>>, <<c[1], c[2] - 1>> >>

NeighborList(c) ==
    IF IsUp(c)
    THEN << <<c[1] - 1, c[2]>>, <<c[1] + 1, c[2]>>, <<c[1], c[2] - 1>> >>
    ELSE << <<c[1] - 1, c[2]>>, <<c[1] + 1, c[2]>>, <<c[1], c[2] + 1>> >>

Neighbors(c) == {NeighborList(c)[i] : i \in 1..Len(NeighborList(c))}

\* boundary without "if neighbor not in cells"
BoundaryWithInterior(cells) == UNION {Neighbors(c) : c \in cells}

Boundary(cells) ==
    {n \in UNION {Neighbors(c) : c \in cells} : n \notin cells}

Translate(cells, dx, dy) == {<<c[1] + dx, c[2] + dy>> : c \in cells}

CellToCartesian(c) ==
    IF IsUp(c) THEN <<2 * c[1], 6 * c[2] + 2>> ELSE <<2 * c[1], 6 * c[2] + 4>>

\* round(x * 2) with x = X/4: Python rounds a half to the even integer
RoundHalfEven(X) ==
    LET k == X \div 2
    IN  IF X % 2 = 0 THEN k ELSE IF k % 2 = 0 THEN k ELSE k + 1

\* 48 times the squared distance from the centre of cell c to the point <<X, Y>>
Dist2(c, X, Y) ==
    LET p == CellToCartesian(c)
    IN  3 * (p[1] - X) * (p[1] - X) + (p[2] - Y) * (p[2] - Y)

SearchRadius == 3

\* the scan "for dr in range(-3, 4): for dc in range(-3, 4)", candidate i of
\* (2*SearchRadius+1)^2, keeping the first strictly nearest cell; best_dist is
\* 48 times the squared distance, -1 standing for float('inf')
RECURSIVE ScanNearest(_, _, _, _, _, _, _)
ScanNearest(i, best_cell, best_dist, X, Y, col_est, row_est) ==
    LET w == 2 * SearchRadius + 1
    IN  IF i >= w * w THEN best_cell
        ELSE LET c    == <<col_est + (i % w) - SearchRadius,
                           row_est + (i \div w) - SearchRadius>>
                 dist == Dist2(c, X, Y)
             IN  IF best_dist = -1 \/ dist < best_dist
                 THEN ScanNearest(i + 1, c, dist, X, Y, col_est, row_est)
                 ELSE ScanNearest(i + 1, best_cell, best_dist, X, Y, col_est, row_est)

CartesianToCell(X, Y) ==
    LET row_est == Y \div 6
        col_est == RoundHalfEven(X)
    IN  ScanNearest(0, <<>>, -1, X, Y, col_est, row_est)

MinX(cells) == CHOOSE m \in {c[1] : c \in cells} : \A c \in cells : m <= c[1]

MinY(cells) == CHOOSE m \in {c[2] : c \in cells} : \A c \in cells : m <= c[2]

\* canonical_position without the parity adjustment of min_x
CanonicalPositionAnyParity(cells) ==
    IF cells = {} THEN cells
    ELSE Translate(cells, -MinX(cells), -MinY(cells))

CanonicalPosition(cells) ==
    IF cells = {} THEN cells
    ELSE LET min_x == MinX(cells)
             min_y == MinY(cells)
             adj_x == IF (min_x + min_y) % 2 # 0 THEN min_x - 1 ELSE min_x
         IN  Translate(cells, -adj_x, -min_y)

\* rotate_60_cw: the centre turned about the Cartesian origin,
\* (cx*cos60 + cy*sin60, -cx*sin60 + cy*cos60), then the nearest cell; with
\* cx = X/4 and cy = Y*sqrt(3)/12 the turned point is ((X+Y)/8,
\* (Y-3X)*sqrt(3)/24), and X and Y are even for a cell centre
CellRotate60Cw(cell) ==
    LET p     == CellToCartesian(cell)
        new_x == (p[1] + p[2]) \div 2
        new_y == (p[2] - 3 * p[1]) \div 2
    IN  CartesianToCell(new_x, new_y)

\* TriangularGrid.rotate_60
CellRotate60(cell) == CellRotate60Cw(cell)

\* TriangularGrid.rotate_180
CellRotate180(cell) == CellRotate60(CellRotate60(CellRotate60(cell)))

-----------------------------------------------------------------------------
(* polyiamond.py: a Polyiamond is represented by its _cells *)

\* a constructor that stores the cells where they are
NewPolyiamondUnmoved(cells) == cells

NewPolyiamond(cells) == CanonicalPosition(cells)

\* Polyiamond.translate keeps the actual position
PolyTranslate(cells, dx, dy) == Translate(cells, dx, dy)

CellLess(a, b) == a[1] < b[1] \/ (a[1] = b[1] /\ a[2] < b[2])

\* min(self._cells, key=lambda c: (c.x, c.y))
FirstCell(cells) == CHOOSE c \in cells : \A d \in cells : d = c \/ CellLess(c, d)

GetVertex(cell, vertex_index) ==
    LET x == cell[1]
        y == cell[2]
    IN  IF IsUp(cell)
        THEN IF vertex_index = 0 THEN <<2 * x - 2, 6 * y>>
             ELSE IF vertex_index = 1 THEN <<2 * x + 2, 6 * y>>
             ELSE <<2 * x, 6 * (y + 1)>>
        ELSE IF vertex_index = 0 THEN <<2 * x - 2, 6 * (y + 1)>>
             ELSE IF vertex_index = 1 THEN <<2 * x + 2, 6 * (y + 1)>>
             ELSE <<2 * x, 6 * y>>

\* (dx*cos60 + dy*sin60, -dx*sin60 + dy*cos60): with dx = X/4, dy = Y*sqrt(3)/12
\* the image is ((X+Y)/8, (Y-3X)*sqrt(3)/24); X and Y are even for the offset
\* of a cell centre from a lattice vertex
Rot60CW(X, Y) == <<(X + Y) \div 2, (Y - 3 * X) \div 2>>

FlipX(X, Y) == <<X, -Y>>

FlipY(X, Y) == <<-X, Y>>

ApplyTransformAroundVertex(cells, T(_, _), vertex) ==
    NewPolyiamond({ LET p == CellToCartesian(cell)
                        n == T(p[1] - vertex[1], p[2] - vertex[2])
                    IN  CartesianToCell(n[1] + vertex[1], n[2] + vertex[2])
                    : cell \in cells })

Rotate60(cells) ==
    ApplyTransformAroundVertex(cells, Rot60CW, GetVertex(FirstCell(cells), 1))

ReflectX(cells) ==
    ApplyTransformAroundVertex(cells, FlipX, GetVertex(FirstCell(cells), 1))

ReflectY(cells) ==
    ApplyTransformAroundVertex(cells, FlipY, GetVertex(FirstCell(cells), 1))

\* rotations = [self]; five times: current = current.rotate_60(), appended
AllRotations(cells) ==
    LET RECURSIVE Build(_)
        Build(rotations) ==
            IF Len(rotations) = 6 THEN rotations
            ELSE Build(Append(rotations, Rotate60(rotations[Len(rotations)])))
    IN  Build(<<cells>>)

\* rot, rot.reflect_x() for each rotation: entry t+1 is transformation number t
AllTransformations(cells) ==
    LET rots == AllRotations(cells)
        RECURSIVE Collect(_, _)
        Collect(i, transformations) ==
            IF i > Len(rots) THEN transformations
            ELSE Collect(i + 1, transformations \o <<rots[i], ReflectX(rots[i])>>)
    IN  Collect(1, <<>>)

\* sorted((c.x, c.y) for c in cells)
RECURSIVE SortCells(_)
SortCells(cells) ==
    IF cells = {} THEN <<>>
    ELSE LET c == FirstCell(cells) IN <<c>> \o SortCells(cells \ {c})

\* Python's tuple order on two sorted cell tuples
RECURSIVE TupleLess(_, _)
TupleLess(s, t) ==
    IF s = <<>> THEN t # <<>>
    ELSE IF t = <<>> THEN FALSE
    ELSE IF Head(s) = Head(t) THEN TupleLess(Tail(s), Tail(t))
    ELSE CellLess(Head(s), Head(t))

\* cells_key(p), with p
CellsKey(cells) == <<SortCells(cells), cells>>

\* the order min(..., key=cells_key) goes by
KeyLeq(k, l) == k[1] = l[1] \/ TupleLess(k[1], l[1])

\* canonical_form taking the smallest of the six rotations only
CanonicalFormRotationsOnly(cells) ==
    LET all_forms == AllRotations(cells)
        keyed     == {CellsKey(all_forms[i]) : i \in 1..6}
    IN  (CHOOSE k \in keyed : \A l \in keyed : KeyLeq(k, l))[2]

CanonicalForm(cells) ==
    LET all_forms == AllTransformations(cells)
        keyed     == {CellsKey(all_forms[i]) : i \in 1..12}
    IN  (CHOOSE k \in keyed : \A l \in keyed : KeyLeq(k, l))[2]

CanonicalCells(cells) == CanonicalForm(cells)

AreEquivalent(p1, p2) == CanonicalCells(p1) = CanonicalCells(p2)

IsConnected(cells) ==
    IF cells = {} \/ Cardinality(cells) = 1 THEN TRUE
    ELSE LET RECURSIVE Visit(_, _)
             Visit(visited, to_visit) ==
                 IF to_visit = {} THEN visited
                 ELSE LET v2 == visited \cup to_visit
                      IN  Visit(v2, {n \in UNION {Neighbors(c) : c \in to_visit} :
                                        n \in cells /\ n \notin v2})
         IN  Visit({}, {FirstCell(cells)}) = cells

-----------------------------------------------------------------------------
(* corona_sat.py *)

\* the order in which a "for ... in <set>" loop delivers the elements
RECURSIVE SetToSeq(_)
SetToSeq(S) ==
    IF S = {} THEN <<>>
    ELSE LET x == CHOOSE y \in S : TRUE IN <<x>> \o SetToSeq(S \ {x})

Placement(cells, transform_id, dx, dy) ==
    [cells |-> cells, transform_id |-> transform_id, dx |-> dx, dy |-> dy]

\* Placement.__eq__
PlacementEq(p, q) == p.cells = q.cells

\* AlignedPlacements without "if (dx + dy) % 2 != 0: continue"
AlignedPlacementsAnyParity(trans_id, base_cells, occupied, boundary) ==
    { Placement(Translate(base_cells, ba[1][1] - ba[2][1], ba[1][2] - ba[2][2]),
                trans_id, ba[1][1] - ba[2][1], ba[1][2] - ba[2][2])
      : ba \in { pair \in boundary \X base_cells :
                   Translate(base_cells, pair[1][1] - pair[2][1],
                             pair[1][2] - pair[2][2]) \cap occupied = {} } }

\* AlignedPlacements aligning only the first cell of the transformed shape
\* with the boundary cells, instead of every base_cell
AlignedPlacementsFirstCell(trans_id, base_cells, occupied, boundary) ==
    { Placement(Translate(base_cells, ba[1][1] - ba[2][1], ba[1][2] - ba[2][2]),
                trans_id, ba[1][1] - ba[2][1], ba[1][2] - ba[2][2])
      : ba \in { pair \in boundary \X {FirstCell(base_cells)} :
                   /\ ((pair[1][1] - pair[2][1]) + (pair[1][2] - pair[2][2])) % 2 = 0
                   /\ Translate(base_cells, pair[1][1] - pair[2][1],
                                pair[1][2] - pair[2][2]) \cap occupied = {} } }

\* the body of the two inner loops for one transformation: every alignment of
\* a base_cell with a boundary_cell that passes the parity and overlap tests
AlignedPlacements(trans_id, base_cells, occupied, boundary) ==
    { Placement(Translate(base_cells, ba[1][1] - ba[2][1], ba[1][2] - ba[2][2]),
                trans_id, ba[1][1] - ba[2][1], ba[1][2] - ba[2][2])
      : ba \in { pair \in boundary \X base_cells :
                   /\ ((pair[1][1] - pair[2][1]) + (pair[1][2] - pair[2][2])) % 2 = 0
                   /\ Translate(base_cells, pair[1][1] - pair[2][1],
                                pair[1][2] - pair[2][2]) \cap occupied = {} } }

RECURSIVE PlacementLoop(_, _, _, _, _)
PlacementLoop(trans_id, transforms, placements, occupied, boundary) ==
    IF trans_id >= Len(transforms) THEN placements
    ELSE LET fresh ==
                 { p \in AlignedPlacements(trans_id, transforms[trans_id + 1],
                                           occupied, boundary) :
                     \A i \in 1..Len(placements) : ~PlacementEq(placements[i], p) }
         IN  PlacementLoop(trans_id + 1, transforms, placements \o SetToSeq(fresh),
                           occupied, boundary)

FindValidPlacements(polyiamond, occupied, boundary) ==
    PlacementLoop(0, AllTransformations(polyiamond), <<>>, occupied, boundary)

\* a clause is the set of its literals; variable i+1 stands for placements[i+1]
\* (1-indexed), a negative number for the negated variable
CellToVars(placements) ==
    [cell \in UNION {placements[i].cells : i \in 1..Len(placements)} |->
        {v \in 1..Len(placements) : cell \in placements[v].cells}]

\* build_sat_formula without the empty clause for a boundary cell that no
\* placement contains
BuildSatFormulaNoEmptyClause(placements, boundary, require_complete) ==
    LET cell_to_vars == CellToVars(placements)
        exclusion ==
            UNION { { {-v, -w} : <<v, w>> \in { vw \in cell_to_vars[cell] \X cell_to_vars[cell] :
                                                 vw[1] < vw[2] } }
                    : cell \in DOMAIN cell_to_vars }
        coverage ==
            IF require_complete
            THEN { cell_to_vars[cell] : cell \in boundary \cap DOMAIN cell_to_vars }
            ELSE {}
    IN  [clauses |-> exclusion \cup coverage,
         var_to_placement |-> placements,
         cell_to_vars |-> cell_to_vars]

BuildSatFormula(placements, boundary, require_complete) ==
    LET cell_to_vars == CellToVars(placements)
        exclusion ==
            UNION { { {-v, -w} : <<v, w>> \in { vw \in cell_to_vars[cell] \X cell_to_vars[cell] :
                                                 vw[1] < vw[2] } }
                    : cell \in DOMAIN cell_to_vars }
        coverage ==
            IF require_complete
            THEN { IF cell \in DOMAIN cell_to_vars THEN cell_to_vars[cell] ELSE {}
                   : cell \in boundary }
            ELSE {}
    IN  [clauses |-> exclusion \cup coverage,
         var_to_placement |-> placements,
         cell_to_vars |-> cell_to_vars]

\* the clauses left after every literal of lits is made true
AssignLiterals(clauses, lits) ==
    {c \ {-l : l \in lits} : c \in {d \in clauses : d \cap lits = {}}}

VarsOf(lits) == {IF l > 0 THEN l ELSE -l : l \in lits}

\* every assignment of the variables in free that satisfies the clauses, as
\* its set of true variables joined to trues: unit clauses are assigned
\* together, otherwise a literal of some clause is tried both ways
RECURSIVE Extensions(_, _, _)
Extensions(clauses, free, trues) ==
    IF {} \in clauses THEN {}
    ELSE IF clauses = {} THEN {trues \cup T : T \in SUBSET free}
    ELSE LET units == UNION {c \in clauses : Cardinality(c) = 1}
         IN  IF units # {}
             THEN IF \E l \in units : -l \in units THEN {}
                  ELSE Extensions(AssignLiterals(clauses, units), free \ VarsOf(units),
                                  trues \cup {l \in units : l > 0})
             ELSE LET lit == CHOOSE l \in UNION clauses : TRUE
                  IN  Extensions(AssignLiterals(clauses, {lit}), free \ VarsOf({lit}),
                                 trues \cup {l \in {lit} : l > 0})
                      \cup
                      Extensions(AssignLiterals(clauses, {-lit}), free \ VarsOf({lit}),
                                 trues \cup {l \in {-lit} : l > 0})

\* the SAT back end: solver.solve() is true exactly when SatModels is not
\* empty, and solver.get_model() is one of its members, the back end's choice
SatModels(clauses, nvars) == Extensions(clauses, 1..nvars, {})

\* ModelPlacements reading the list of placements with the 1-indexed variable
\* as a 0-indexed position
ModelPlacementsOffByOne(var_to_placement, model) ==
    LET RECURSIVE Pick(_)
        Pick(v) == IF v >= Len(var_to_placement) THEN <<>>
                   ELSE IF v \in model THEN <<var_to_placement[v + 1]>> \o Pick(v + 1)
                   ELSE Pick(v + 1)
    IN  Pick(1)

\* [var_to_placement[lit] for lit in model if lit > 0 and lit in var_to_placement]
ModelPlacements(var_to_placement, model) ==
    LET RECURSIVE Pick(_)
        Pick(v) == IF v > Len(var_to_placement) THEN <<>>
                   ELSE IF v \in model THEN <<var_to_placement[v]>> \o Pick(v + 1)
                   ELSE Pick(v + 1)
    IN  Pick(1)

None == [found |-> FALSE, corona |-> <<>>]

Some(corona) == [found |-> TRUE, corona |-> corona]

\* solve_corona without its two early returns: the formula always goes to the
\* solver
SolveCoronaNoPrecheck(polyiamond, occupied, boundary) ==
    LET placements == FindValidPlacements(polyiamond, occupied, boundary)
        f          == BuildSatFormula(placements, boundary, TRUE)
        models     == SatModels(f.clauses, Len(placements))
    IN  IF models = {}
        THEN {[placements |-> placements, solved |-> TRUE, result |-> None]}
        ELSE {[placements |-> placements, solved |-> TRUE,
               result |-> Some(ModelPlacements(f.var_to_placement, m))]
              : m \in models}

\* every outcome solve_corona can have, with the candidate list it computed
\* and whether it went as far as the solver
SolveCorona(polyiamond, occupied, boundary) ==
    LET placements == FindValidPlacements(polyiamond, occupied, boundary)
        covered_boundary ==
            UNION {placements[i].cells \cap boundary : i \in 1..Len(placements)}
    IN  IF placements = <<>>
        THEN {[placements |-> placements, solved |-> FALSE, result |-> None]}
        ELSE IF covered_boundary # boundary
        THEN {[placements |-> placements, solved |-> FALSE, result |-> None]}
        ELSE LET f      == BuildSatFormula(placements, boundary, TRUE)
                 models == SatModels(f.clauses, Len(placements))
             IN  IF models = {}
                 THEN {[placements |-> placements, solved |-> TRUE, result |-> None]}
                 ELSE {[placements |-> placements, solved |-> TRUE,
                        result |-> Some(ModelPlacements(f.var_to_placement, m))]
                       : m \in models}

-----------------------------------------------------------------------------
(* generator.py *)

CanonicalizeCellsSimple(cells) == IF cells = {} THEN <<>> ELSE SortCells(cells)

\* one pass of "for size in range(2, n + 1)": every cells | {neighbor} is a
\* candidate, and next_level receives one shape for each key not in next_seen.
\* The lists of the generator have no repetition and an order (that of
\* Python's set iteration) nothing reads, so they are held as sets.
NextLevel(current_level) ==
    LET candidates ==
            UNION { {cells \cup {neighbor} :
                        neighbor \in {nb \in UNION {Neighbors(cell) : cell \in cells} :
                                        nb \notin cells}}
                    : cells \in current_level }
        next_seen == {CanonicalizeCellsSimple(new_cells) : new_cells \in candidates}
    IN  {CHOOSE new_cells \in candidates : CanonicalizeCellsSimple(new_cells) = key
         : key \in next_seen}

RECURSIVE SizeLoop(_, _, _)
SizeLoop(size, n, current_level) ==
    IF size > n THEN current_level
    ELSE SizeLoop(size + 1, n, NextLevel(current_level))

GenerateFixedPolyiamonds(n) ==
    IF n <= 0 THEN {}
    ELSE LET start == {<<0, 0>>}
         IN  IF n = 1 THEN {start} ELSE SizeLoop(2, n, {start})

\* KNOWN_FREE_COUNTS, for n = 1..12
KNOWN_FREE_COUNTS == <<1, 1, 1, 4, 6, 12, 24, 66, 160, 448, 1186, 3334>>

\* verify_generator: the status it prints for n is "OK"
VerifyGeneratorOK(n, count) == count = KNOWN_FREE_COUNTS[n]

-----------------------------------------------------------------------------
(* State *)

VARIABLES
    pc,            \* find_coronas: "idle" (not called), "loop", "done" (returned)
    polyiamond,    \* the cells of the Polyiamond passed to find_coronas
    max_coronas,   \* the cap passed to find_coronas
    corona_num,    \* the loop variable of find_coronas
    occupied,      \* find_coronas: occupied
    coronas,       \* find_coronas: coronas, a list of lists of placements
    call,          \* the latest solve_corona call: its arguments and outcome
    attempts,      \* the corona rounds tried so far, in order, with their outcome
    returned,      \* <<>> until find_coronas returns, then <<hc, coronas>>
    run,           \* which execution of find_coronas on this input this is
    earlier,       \* the Heesch numbers the earlier executions returned
    solvers,       \* how many Solver objects were created, and how many deleted
    p1,            \* are_equivalent: the cells of its first Polyiamond
    p2,            \* are_equivalent: the cells of its second Polyiamond
    gen_n,         \* generate_polyiamonds: n
    fixed,         \* generate_polyiamonds: fixed
    gen_pc,        \* generate_polyiamonds: "start", "loop", "done" (returned)
    fixed_shapes,  \* what generate_fixed_polyiamonds(n) returned
    pending,       \* the members of fixed_shapes the for loop has yet to visit
    seen_canonical,\* generate_polyiamonds: seen_canonical
    result,        \* generate_polyiamonds: result, as the list of the cells
    ctor_pc,       \* Polyiamond(cells): "idle", "new" (about to run), "built"
    ctor_cells,    \* Polyiamond(cells): the argument
    ctor_self,     \* Polyiamond(cells): the object it produced, or NoObject
    search,        \* the driver in use: "search_polyiamonds" or "search_high_heesch"
    search_pc,     \* the driver: "idle", "start", "loop", "find_coronas", "done"
    search_n,      \* the driver's n
    target_hc,     \* search_polyiamonds: target_hc, <<>> for None and <<t>> for t
    min_hc,        \* search_high_heesch: min_hc
    fixed_polys,   \* the members of fixed_polys the for loop has yet to visit
    search_seen,   \* the driver's seen_canonical
    search_poly,   \* the driver's poly, the shape given to find_coronas
    examples,      \* results / high_hc_examples: the appended entries, in order
    hc_counts,     \* search_high_heesch: hc_counts, 0 where there is no key
    printed,       \* search_high_heesch: the lines of the distribution it prints
    find_calls,    \* the canon_key of each find_coronas call the driver made
    g_op,          \* grid.py: "cells" or "sets" (the input drawn), then the function applied
    g_cell,        \* a cell given to neighbors and rotate_60
    g_cell2,       \* a second cell given to them
    g_cells,       \* a cell set given to boundary and canonical_position
    g_cells2,      \* a second cell set given to canonical_position
    g_turns,       \* how many times rotate_60 has been applied
    g_out,         \* what the function returned
    f_pc,          \* build_sat_formula: "idle", "input", "built", "sat", "unsat"
    f_placements,  \* build_sat_formula: placements
    f_boundary,    \* build_sat_formula: boundary
    f_formula,     \* what build_sat_formula returned
    f_model        \* the true variables of the model the solver returned

engineVars == <<pc, polyiamond, max_coronas, corona_num, occupied, coronas, call,
                attempts, returned, run, earlier, solvers>>

canonVars == <<p1, p2>>

genVars == <<gen_n, fixed, gen_pc, fixed_shapes, pending, seen_canonical, result>>

ctorVars == <<ctor_pc, ctor_cells, ctor_self>>

searchVars == <<search, search_pc, search_n, target_hc, min_hc, fixed_polys,
                search_seen, search_poly, examples, hc_counts, printed, find_calls>>

gridVars == <<g_op, g_cell, g_cell2, g_cells, g_cells2, g_turns, g_out>>

formulaVars == <<f_pc, f_placements, f_boundary, f_formula, f_model>>

vars == <<engineVars, canonVars, genVars, ctorVars, searchVars, gridVars, formulaVars>>

-----------------------------------------------------------------------------
(* Bounds and inputs *)

MaxCap == 3

MaxRuns == 2

Moniamond == NewPolyiamond({<<0, 0>>})

Diamond == NewPolyiamond({<<0, 0>>, <<1, 0>>})

TriangleTetriamond == NewPolyiamond({<<0, 0>>, <<1, 0>>, <<1, 1>>, <<2, 0>>})

HookHeptiamond ==
    NewPolyiamond({<<0, 0>>, <<0, 1>>, <<0, 2>>, <<1, 0>>, <<1, 1>>, <<2, 1>>, <<3, 1>>})

\* a 9-iamond with a boundary cell that no copy can cover
NotchedEnneiamond ==
    NewPolyiamond({<<0, 0>>, <<1, 0>>, <<1, 1>>, <<2, 0>>, <<2, 1>>, <<2, 2>>, <<3, 2>>,
                   <<3, 3>>, <<4, 2>>})

\* a 9-iamond whose every boundary cell can be covered, but not all at once
CrampedEnneiamond ==
    NewPolyiamond({<<0, 1>>, <<0, 2>>, <<1, 0>>, <<1, 1>>, <<2, 1>>, <<3, 0>>, <<3, 1>>,
                   <<4, 1>>, <<4, 2>>})

\* the (polyiamond, max_coronas) arguments find_coronas is run on
Inputs ==
    ({Moniamond, TriangleTetriamond} \X (-1..MaxCap))
    \cup ({Diamond, HookHeptiamond, NotchedEnneiamond, CrampedEnneiamond} \X {1, 2})

-----------------------------------------------------------------------------
(* find_coronas *)

NoCall == [made |-> FALSE, occupied |-> {}, boundary |-> {}, placements |-> <<>>,
           solved |-> FALSE, result |-> None]

NoSolvers == [created |-> 0, deleted |-> 0]

\* solver = Solver(name=solver_name, bootstrap_with=formula)
SolverCreate(s) == [s EXCEPT !.created = @ + 1]

\* solver.delete()
SolverDelete(s) == [s EXCEPT !.deleted = @ + 1]

CoronaCells(corona) == UNION {corona[i].cells : i \in 1..Len(corona)}

\* are_equivalent is not in use
CanonIdle == p1 = {} /\ p2 = {}

\* what ctor_self holds before the constructor has produced an object
NoObject == [built |-> FALSE, cells |-> {}]

\* the constructor is not in use on its own
CtorIdle == ctor_pc = "idle" /\ ctor_cells = {} /\ ctor_self = NoObject

\* no function of grid.py is in use on its own
GridIdle ==
    /\ g_op = "idle"
    /\ g_cell = <<0, 0>>
    /\ g_cell2 = <<0, 0>>
    /\ g_cells = {}
    /\ g_cells2 = {}
    /\ g_turns = 0
    /\ g_out = <<>>

\* build_sat_formula is not in use on its own
FormulaIdle ==
    /\ f_pc = "idle"
    /\ f_placements = <<>>
    /\ f_boundary = {}
    /\ f_formula = <<>>
    /\ f_model = {}

\* no driver is in use
SearchIdle ==
    /\ search = "none"
    /\ search_pc = "idle"
    /\ search_n = 0
    /\ target_hc = <<>>
    /\ min_hc = 0
    /\ fixed_polys = {}
    /\ search_seen = {}
    /\ search_poly = {}
    /\ examples = <<>>
    /\ hc_counts = <<>>
    /\ printed = {}
    /\ find_calls = <<>>

\* generate_polyiamonds is not in use
GenIdle ==
    /\ gen_n = 0
    /\ fixed = FALSE
    /\ gen_pc = "idle"
    /\ fixed_shapes = {}
    /\ pending = {}
    /\ seen_canonical = {}
    /\ result = <<>>

Init ==
    /\ CanonIdle
    /\ GenIdle
    /\ CtorIdle
    /\ SearchIdle
    /\ GridIdle
    /\ FormulaIdle
    /\ pc = "idle"
    /\ \E input \in Inputs : polyiamond = input[1] /\ max_coronas = input[2]
    /\ corona_num = 0
    /\ occupied = {}
    /\ coronas = <<>>
    /\ call = NoCall
    /\ attempts = <<>>
    /\ returned = <<>>
    /\ run = 1
    /\ earlier = {}
    /\ solvers = NoSolvers

\* occupied = polyiamond.cells; coronas = []
FindCoronasEnter ==
    /\ pc = "idle"
    /\ pc' = "loop"
    /\ occupied' = polyiamond
    /\ coronas' = <<>>
    /\ corona_num' = 1
    /\ UNCHANGED <<polyiamond, max_coronas, call, attempts, returned, run, earlier>>
    /\ UNCHANGED <<solvers, canonVars, genVars, ctorVars, searchVars, gridVars, formulaVars>>

\* CoronaRound without the break: a round without a corona is followed by
\* the next round
CoronaRoundNoBreak ==
    /\ pc = "loop"
    /\ corona_num <= max_coronas
    /\ LET boundary == Boundary(occupied)
       IN  \E out \in SolveCorona(polyiamond, occupied, boundary) :
             /\ call' = [made |-> TRUE, occupied |-> occupied, boundary |-> boundary,
                         placements |-> out.placements, solved |-> out.solved,
                         result |-> out.result]
             /\ attempts' = Append(attempts, [round |-> corona_num,
                                              found |-> out.result.found])
             /\ solvers' = IF out.solved THEN SolverDelete(SolverCreate(solvers))
                                          ELSE solvers
             /\ IF out.result.found
                THEN /\ coronas' = Append(coronas, out.result.corona)
                     /\ occupied' = occupied \cup CoronaCells(out.result.corona)
                ELSE UNCHANGED <<coronas, occupied>>
             /\ corona_num' = corona_num + 1
             /\ UNCHANGED <<pc, returned>>
    /\ UNCHANGED <<polyiamond, max_coronas, run, earlier>>
    /\ UNCHANGED <<canonVars, genVars, ctorVars, searchVars, gridVars, formulaVars>>

\* CoronaRound with "occupied = corona cells" in place of
\* "occupied = occupied | corona cells"
CoronaRoundOverwrite ==
    /\ pc = "loop"
    /\ corona_num <= max_coronas
    /\ LET boundary == Boundary(occupied)
       IN  \E out \in SolveCorona(polyiamond, occupied, boundary) :
             /\ call' = [made |-> TRUE, occupied |-> occupied, boundary |-> boundary,
                         placements |-> out.placements, solved |-> out.solved,
                         result |-> out.result]
             /\ attempts' = Append(attempts, [round |-> corona_num,
                                              found |-> out.result.found])
             /\ solvers' = IF out.solved THEN SolverDelete(SolverCreate(solvers))
                                          ELSE solvers
             /\ IF out.result.found
                THEN /\ coronas' = Append(coronas, out.result.corona)
                     /\ occupied' = CoronaCells(out.result.corona)
                     /\ corona_num' = corona_num + 1
                     /\ UNCHANGED <<pc, returned>>
                ELSE /\ pc' = "done"
                     /\ returned' = <<Len(coronas), coronas>>
                     /\ UNCHANGED <<coronas, occupied, corona_num>>
    /\ UNCHANGED <<polyiamond, max_coronas, run, earlier>>
    /\ UNCHANGED <<canonVars, genVars, ctorVars, searchVars, gridVars, formulaVars>>

\* one iteration of "for corona_num in range(1, max_coronas + 1)"; a round
\* without a corona breaks out of the loop and returns
CoronaRound ==
    /\ pc = "loop"
    /\ corona_num <= max_coronas
    /\ LET boundary == Boundary(occupied)
       IN  \E out \in SolveCorona(polyiamond, occupied, boundary) :
             /\ call' = [made |-> TRUE, occupied |-> occupied, boundary |-> boundary,
                         placements |-> out.placements, solved |-> out.solved,
                         result |-> out.result]
             /\ attempts' = Append(attempts, [round |-> corona_num,
                                              found |-> out.result.found])
             /\ solvers' = IF out.solved THEN SolverDelete(SolverCreate(solvers))
                                          ELSE solvers
             /\ IF out.result.found
                THEN /\ coronas' = Append(coronas, out.result.corona)
                     /\ occupied' = occupied \cup CoronaCells(out.result.corona)
                     /\ corona_num' = corona_num + 1
                     /\ UNCHANGED <<pc, returned>>
                ELSE /\ pc' = "done"
                     /\ returned' = <<Len(coronas), coronas>>
                     /\ UNCHANGED <<coronas, occupied, corona_num>>
    /\ UNCHANGED <<polyiamond, max_coronas, run, earlier>>
    /\ UNCHANGED <<canonVars, genVars, ctorVars, searchVars, gridVars, formulaVars>>

\* the loop ran out of rounds: return len(coronas), coronas
FindCoronasReturn ==
    /\ pc = "loop"
    /\ corona_num > max_coronas
    /\ pc' = "done"
    /\ returned' = <<Len(coronas), coronas>>
    /\ UNCHANGED <<polyiamond, max_coronas, corona_num, occupied, coronas, call,
                   attempts, run, earlier>>
    /\ UNCHANGED <<solvers, canonVars, genVars, ctorVars, searchVars, gridVars, formulaVars>>

\* compute_heesch_number: hc, _ = find_coronas(...)
ComputeHeeschNumber == returned[1]

\* the program is executed again on the same input
RunAgain ==
    /\ pc = "done"
    /\ run < MaxRuns
    /\ run' = run + 1
    /\ earlier' = earlier \cup {ComputeHeeschNumber}
    /\ pc' = "idle"
    /\ corona_num' = 0
    /\ occupied' = {}
    /\ coronas' = <<>>
    /\ call' = NoCall
    /\ attempts' = <<>>
    /\ returned' = <<>>
    /\ UNCHANGED <<polyiamond, max_coronas>>
    /\ UNCHANGED <<solvers, canonVars, genVars, ctorVars, searchVars, gridVars, formulaVars>>

Next ==
    \/ FindCoronasEnter
    \/ CoronaRound
    \/ FindCoronasReturn
    \/ RunAgain

Spec == Init /\ [][Next]_vars

\* an iteration in which solve_corona gets as far as the solver and the back
\* end fails inside solver.solve(): the exception leaves solve_corona before
\* either solver.delete(), and leaves find_coronas, which has no handler
CoronaRoundBackendFails ==
    /\ pc = "loop"
    /\ corona_num <= max_coronas
    /\ LET boundary == Boundary(occupied)
       IN  \E out \in SolveCorona(polyiamond, occupied, boundary) :
             /\ out.solved
             /\ call' = [made |-> TRUE, occupied |-> occupied, boundary |-> boundary,
                         placements |-> out.placements, solved |-> TRUE,
                         result |-> None]
    /\ solvers' = SolverCreate(solvers)
    /\ pc' = "raised"
    /\ UNCHANGED <<polyiamond, max_coronas, corona_num, occupied, coronas, attempts,
                   returned, run, earlier>>
    /\ UNCHANGED <<canonVars, genVars, ctorVars, searchVars, gridVars, formulaVars>>

FaultNext ==
    \/ FindCoronasEnter
    \/ CoronaRound
    \/ CoronaRoundBackendFails
    \/ FindCoronasReturn
    \/ RunAgain

\* find_coronas with a back end that may fail
FaultSpec == Init /\ [][FaultNext]_vars

-----------------------------------------------------------------------------
(* find_valid_placements, called on regions grown copy by copy *)

MaxCopies == 1

CrookPentiamond == NewPolyiamond({<<0, 0>>, <<0, 1>>, <<0, 2>>, <<1, 0>>, <<1, 1>>})

BentPentiamond == NewPolyiamond({<<0, 0>>, <<0, 1>>, <<1, 0>>, <<1, 1>>, <<2, 0>>})

PlacementShapes == {Moniamond, Diamond, TriangleTetriamond, CrookPentiamond, BentPentiamond}

PlacementInit ==
    /\ CanonIdle
    /\ GenIdle
    /\ CtorIdle
    /\ SearchIdle
    /\ GridIdle
    /\ FormulaIdle
    /\ pc = "ask"
    /\ polyiamond \in PlacementShapes
    /\ max_coronas = 0
    /\ corona_num = 0
    /\ occupied = polyiamond
    /\ coronas = <<>>
    /\ call = NoCall
    /\ attempts = <<>>
    /\ returned = <<>>
    /\ run = 1
    /\ earlier = {}
    /\ solvers = NoSolvers

\* placements = find_valid_placements(polyiamond, occupied, boundary), with
\* the boundary of the region as solve_corona is given it
FindValidPlacementsCall ==
    /\ pc = "ask"
    /\ pc' = "answered"
    /\ LET boundary == Boundary(occupied)
       IN  call' = [made |-> TRUE, occupied |-> occupied, boundary |-> boundary,
                    placements |-> FindValidPlacements(polyiamond, occupied, boundary),
                    solved |-> FALSE, result |-> None]
    /\ UNCHANGED <<polyiamond, max_coronas, corona_num, occupied, coronas, attempts,
                   returned, run, earlier>>
    /\ UNCHANGED <<solvers, canonVars, genVars, ctorVars, searchVars, gridVars, formulaVars>>

\* the region grows by the cells of one of the candidates, and is asked about again
PlaceCopy ==
    /\ pc = "answered"
    /\ corona_num < MaxCopies
    /\ \E i \in 1..Len(call.placements) :
          occupied' = occupied \cup call.placements[i].cells
    /\ corona_num' = corona_num + 1
    /\ pc' = "ask"
    /\ UNCHANGED <<polyiamond, max_coronas, coronas, call, attempts, returned, run,
                   earlier>>
    /\ UNCHANGED <<solvers, canonVars, genVars, ctorVars, searchVars, gridVars, formulaVars>>

PlacementNext ==
    \/ FindValidPlacementsCall
    \/ PlaceCopy

PlacementSpec == PlacementInit /\ [][PlacementNext]_vars

-----------------------------------------------------------------------------
(* generate_polyiamonds *)

MaxN == 5

EngineIdle ==
    /\ pc = "idle"
    /\ polyiamond = {}
    /\ max_coronas = 0
    /\ corona_num = 0
    /\ occupied = {}
    /\ coronas = <<>>
    /\ call = NoCall
    /\ attempts = <<>>
    /\ returned = <<>>
    /\ run = 1
    /\ earlier = {}
    /\ solvers = NoSolvers

GenInit ==
    /\ EngineIdle
    /\ CanonIdle
    /\ CtorIdle
    /\ SearchIdle
    /\ GridIdle
    /\ FormulaIdle
    /\ gen_n \in 0..MaxN
    /\ fixed \in BOOLEAN
    /\ gen_pc = "start"
    /\ fixed_shapes = {}
    /\ pending = {}
    /\ seen_canonical = {}
    /\ result = <<>>

\* "if n <= 0: return []"; otherwise generate_fixed_polyiamonds(n) is called
\* and the loop over it begins
GenerateEnter ==
    /\ gen_pc = "start"
    /\ IF gen_n <= 0
       THEN /\ gen_pc' = "done"
            /\ UNCHANGED <<fixed_shapes, pending, seen_canonical, result>>
       ELSE /\ fixed_shapes' = GenerateFixedPolyiamonds(gen_n)
            /\ pending' = fixed_shapes'
            /\ seen_canonical' = {}
            /\ result' = <<>>
            /\ gen_pc' = "loop"
    /\ UNCHANGED <<gen_n, fixed>>
    /\ UNCHANGED <<engineVars, canonVars, ctorVars, searchVars, gridVars, formulaVars>>

\* GenerateLoop without "seen_canonical.add(canonical)"
GenerateLoopNoAdd ==
    /\ gen_pc = "loop"
    /\ pending # {}
    /\ LET cells == CHOOSE c \in pending : TRUE
       IN  /\ pending' = pending \ {cells}
           /\ IF fixed
              THEN /\ result' = Append(result, NewPolyiamond(cells))
                   /\ UNCHANGED seen_canonical
              ELSE LET poly      == NewPolyiamond(cells)
                       canonical == CanonicalCells(poly)
                   IN  IF canonical \notin seen_canonical
                       THEN /\ UNCHANGED seen_canonical
                            /\ result' = Append(result, NewPolyiamond(canonical))
                       ELSE UNCHANGED <<seen_canonical, result>>
    /\ UNCHANGED <<gen_n, fixed, gen_pc, fixed_shapes>>
    /\ UNCHANGED <<engineVars, canonVars, ctorVars, searchVars, gridVars, formulaVars>>

\* one iteration over generate_fixed_polyiamonds(n): of the list comprehension
\* in fixed mode, of the for loop in free mode
GenerateLoop ==
    /\ gen_pc = "loop"
    /\ pending # {}
    /\ LET cells == CHOOSE c \in pending : TRUE
       IN  /\ pending' = pending \ {cells}
           /\ IF fixed
              THEN /\ result' = Append(result, NewPolyiamond(cells))
                   /\ UNCHANGED seen_canonical
              ELSE LET poly      == NewPolyiamond(cells)
                       canonical == CanonicalCells(poly)
                   IN  IF canonical \notin seen_canonical
                       THEN /\ seen_canonical' = seen_canonical \cup {canonical}
                            /\ result' = Append(result, NewPolyiamond(canonical))
                       ELSE UNCHANGED <<seen_canonical, result>>
    /\ UNCHANGED <<gen_n, fixed, gen_pc, fixed_shapes>>
    /\ UNCHANGED <<engineVars, canonVars, ctorVars, searchVars, gridVars, formulaVars>>

\* the iteration is over: return result
GenerateReturn ==
    /\ gen_pc = "loop"
    /\ pending = {}
    /\ gen_pc' = "done"
    /\ UNCHANGED <<gen_n, fixed, fixed_shapes, pending, seen_canonical, result>>
    /\ UNCHANGED <<engineVars, canonVars, ctorVars, searchVars, gridVars, formulaVars>>

\* count_polyiamonds: len(generate_polyiamonds(n, fixed))
CountPolyiamonds == Len(result)

GenNext ==
    \/ GenerateEnter
    \/ GenerateLoop
    \/ GenerateReturn

GenSpec == GenInit /\ [][GenNext]_vars

-----------------------------------------------------------------------------
(* Polyiamond objects and are_equivalent: p1 is built by the constructor, p2
   is built by the constructor and then changed by the methods that return a
   new Polyiamond *)

MaxCells == 3

MaxShift == 2

\* Polyiamond(cells) for the connected cell sets of up to MaxCells cells
CanonShapes ==
    {NewPolyiamond(cells) :
        cells \in UNION {GenerateFixedPolyiamonds(k) : k \in 1..MaxCells}}

CanonInit ==
    /\ EngineIdle
    /\ GenIdle
    /\ CtorIdle
    /\ SearchIdle
    /\ GridIdle
    /\ FormulaIdle
    /\ p1 \in CanonShapes
    /\ p2 \in CanonShapes

\* p2 = p2.rotate_60()
Rotate60Step ==
    /\ p2' = Rotate60(p2)
    /\ UNCHANGED <<p1, engineVars, genVars, ctorVars, searchVars, gridVars, formulaVars>>

\* p2 = p2.reflect_x()
ReflectXStep ==
    /\ p2' = ReflectX(p2)
    /\ UNCHANGED <<p1, engineVars, genVars, ctorVars, searchVars, gridVars, formulaVars>>

\* p2 = p2.reflect_y()
ReflectYStep ==
    /\ p2' = ReflectY(p2)
    /\ UNCHANGED <<p1, engineVars, genVars, ctorVars, searchVars, gridVars, formulaVars>>

\* p2 = p2.translate(dx, dy), by a translation of the lattice (dx + dy even)
\* that keeps the shape within MaxShift of the origin
TranslateStep ==
    /\ \E dx, dy \in -MaxShift..MaxShift :
          /\ (dx + dy) % 2 = 0
          /\ p2' = PolyTranslate(p2, dx, dy)
          /\ MinX(p2') \in -MaxShift..(MaxShift + 1)
          /\ MinY(p2') \in -MaxShift..MaxShift
    /\ UNCHANGED <<p1, engineVars, genVars, ctorVars, searchVars, gridVars, formulaVars>>

CanonNext ==
    \/ Rotate60Step
    \/ ReflectXStep
    \/ ReflectYStep
    \/ TranslateStep

CanonSpec == CanonInit /\ [][CanonNext]_vars

-----------------------------------------------------------------------------
(* The constructor on its own: Polyiamond(cells) for any set of at most
   MaxCtorCells cells of a small window, connected or not, empty or not *)

MaxCtorCells == 3

CtorWindow == (-1..2) \X (-1..1)

CtorArguments == {cells \in SUBSET CtorWindow : Cardinality(cells) <= MaxCtorCells}

CtorInit ==
    /\ EngineIdle
    /\ CanonIdle
    /\ GenIdle
    /\ SearchIdle
    /\ GridIdle
    /\ FormulaIdle
    /\ ctor_pc = "new"
    /\ ctor_cells \in CtorArguments
    /\ ctor_self = NoObject

\* Polyiamond.__init__: no test of the argument, no raise
PolyiamondInit ==
    /\ ctor_pc = "new"
    /\ ctor_self' = [built |-> TRUE, cells |-> NewPolyiamond(ctor_cells)]
    /\ ctor_pc' = "built"
    /\ UNCHANGED <<ctor_cells, engineVars, canonVars, genVars, searchVars, gridVars, formulaVars>>

CtorNext == PolyiamondInit

CtorSpec == CtorInit /\ [][CtorNext]_vars

-----------------------------------------------------------------------------
(* The search drivers: search_polyiamonds of find_heesch.py and
   search_high_heesch of find_heesch_fast.py. Each find_coronas call they make
   is run by the actions of find_coronas above. The lists the drivers append
   (poly, coronas) to are held as one list of entries that carry the key hc
   they were appended under, and the coronas of an entry are held by their
   sizes, which is what the drivers print of them. *)

MaxSearchN == 4

MaxSearchCap == 1

SearchInit ==
    /\ CanonIdle
    /\ GenIdle
    /\ CtorIdle
    /\ GridIdle
    /\ FormulaIdle
    /\ pc = "uncalled"
    /\ polyiamond = {}
    /\ max_coronas \in 0..MaxSearchCap
    /\ corona_num = 0
    /\ occupied = {}
    /\ coronas = <<>>
    /\ call = NoCall
    /\ attempts = <<>>
    /\ returned = <<>>
    /\ run = 1
    /\ earlier = {}
    /\ solvers = NoSolvers
    /\ search \in {"search_polyiamonds", "search_high_heesch"}
    /\ search_pc = "start"
    /\ search_n \in 0..MaxSearchN
    /\ IF search = "search_polyiamonds"
       THEN /\ target_hc \in {<<>>} \cup {<<t>> : t \in 0..MaxSearchCap}
            /\ min_hc = 0
       ELSE /\ target_hc = <<>>
            /\ min_hc \in 0..MaxSearchCap
    /\ fixed_polys = {}
    /\ search_seen = {}
    /\ search_poly = {}
    /\ examples = <<>>
    /\ hc_counts = <<>>
    /\ printed = {}
    /\ find_calls = <<>>

\* a key made of the cells as they are, with no orbit canonical form
CanonKeyOfCells(cells) == SortCells(cells)

\* tuple(sorted((c.x, c.y) for c in poly.canonical_cells()))
CanonKey(cells) == SortCells(CanonicalCells(cells))

\* the entry appended for (poly, coronas) under the key hc
Example(hc, cells, cs) ==
    [hc |-> hc, poly |-> cells, corona_sizes |-> [i \in 1..Len(cs) |-> Len(cs[i])]]

\* the state of find_coronas between two calls
FindCoronasOver ==
    /\ pc' = "uncalled"
    /\ polyiamond' = {}
    /\ corona_num' = 0
    /\ occupied' = {}
    /\ coronas' = <<>>
    /\ call' = NoCall
    /\ attempts' = <<>>
    /\ returned' = <<>>
    /\ UNCHANGED <<max_coronas, run, earlier, solvers>>

\* search_polyiamonds, down to the for loop
SearchPolyiamondsEnter ==
    /\ search = "search_polyiamonds"
    /\ search_pc = "start"
    /\ fixed_polys' = GenerateFixedPolyiamonds(search_n)
    /\ examples' = <<>>
    /\ search_seen' = {}
    /\ search_pc' = "loop"
    /\ UNCHANGED <<search, search_n, target_hc, min_hc, search_poly, hc_counts, printed,
                   find_calls>>
    /\ UNCHANGED <<engineVars, canonVars, genVars, ctorVars, gridVars, formulaVars>>

\* search_polyiamonds: one pass of the for loop as far as "continue" or the
\* find_coronas call
SearchPolyiamondsIterate ==
    /\ search = "search_polyiamonds"
    /\ search_pc = "loop"
    /\ fixed_polys # {}
    /\ LET cells     == CHOOSE c \in fixed_polys : TRUE
           p         == NewPolyiamond(cells)
           canon_key == CanonKey(p)
       IN  /\ fixed_polys' = fixed_polys \ {cells}
           /\ IF canon_key \in search_seen
              THEN UNCHANGED <<search_seen, search_poly, find_calls, search_pc, pc,
                               polyiamond>>
              ELSE /\ search_seen' = search_seen \cup {canon_key}
                   /\ search_poly' = p
                   /\ find_calls' = Append(find_calls, canon_key)
                   /\ search_pc' = "find_coronas"
                   /\ pc' = "idle"
                   /\ polyiamond' = p
    /\ UNCHANGED <<search, search_n, target_hc, min_hc, examples, hc_counts, printed>>
    /\ UNCHANGED <<max_coronas, corona_num, occupied, coronas, call, attempts, returned,
                   run, earlier, solvers>>
    /\ UNCHANGED <<canonVars, genVars, ctorVars, gridVars, formulaVars>>

\* search_polyiamonds: find_coronas has returned; the rest of the pass
SearchPolyiamondsRecord ==
    /\ search = "search_polyiamonds"
    /\ search_pc = "find_coronas"
    /\ pc = "done"
    /\ LET hc == returned[1]
           cs == returned[2]
       IN  examples' = IF target_hc = <<>> \/ hc = target_hc[1]
                       THEN Append(examples, Example(hc, search_poly, cs))
                       ELSE examples
    /\ search_pc' = "loop"
    /\ FindCoronasOver
    /\ UNCHANGED <<search, search_n, target_hc, min_hc, fixed_polys, search_seen,
                   search_poly, hc_counts, printed, find_calls>>
    /\ UNCHANGED <<canonVars, genVars, ctorVars, gridVars, formulaVars>>

\* search_polyiamonds: the loop is over; return results
SearchPolyiamondsReturn ==
    /\ search = "search_polyiamonds"
    /\ search_pc = "loop"
    /\ fixed_polys = {}
    /\ search_pc' = "done"
    /\ UNCHANGED <<search, search_n, target_hc, min_hc, fixed_polys, search_seen,
                   search_poly, examples, hc_counts, printed, find_calls>>
    /\ UNCHANGED <<engineVars, canonVars, genVars, ctorVars, gridVars, formulaVars>>

\* search_high_heesch, down to the for loop
SearchHighHeeschEnter ==
    /\ search = "search_high_heesch"
    /\ search_pc = "start"
    /\ fixed_polys' = GenerateFixedPolyiamonds(search_n)
    /\ search_seen' = {}
    /\ hc_counts' = [hc \in 0..max_coronas |-> 0]
    /\ examples' = <<>>
    /\ search_pc' = "loop"
    /\ UNCHANGED <<search, search_n, target_hc, min_hc, search_poly, printed, find_calls>>
    /\ UNCHANGED <<engineVars, canonVars, genVars, ctorVars, gridVars, formulaVars>>

\* search_high_heesch: one pass of the for loop as far as "continue" or the
\* find_coronas call
SearchHighHeeschIterate ==
    /\ search = "search_high_heesch"
    /\ search_pc = "loop"
    /\ fixed_polys # {}
    /\ LET cells     == CHOOSE c \in fixed_polys : TRUE
           p         == NewPolyiamond(cells)
           canon_key == CanonKey(p)
       IN  /\ fixed_polys' = fixed_polys \ {cells}
           /\ IF canon_key \in search_seen
              THEN UNCHANGED <<search_seen, search_poly, find_calls, search_pc, pc,
                               polyiamond>>
              ELSE /\ search_seen' = search_seen \cup {canon_key}
                   /\ search_poly' = p
                   /\ find_calls' = Append(find_calls, canon_key)
                   /\ search_pc' = "find_coronas"
                   /\ pc' = "idle"
                   /\ polyiamond' = p
    /\ UNCHANGED <<search, search_n, target_hc, min_hc, examples, hc_counts, printed>>
    /\ UNCHANGED <<max_coronas, corona_num, occupied, coronas, call, attempts, returned,
                   run, earlier, solvers>>
    /\ UNCHANGED <<canonVars, genVars, ctorVars, gridVars, formulaVars>>

\* search_high_heesch: find_coronas has returned; the rest of the pass
SearchHighHeeschRecord ==
    /\ search = "search_high_heesch"
    /\ search_pc = "find_coronas"
    /\ pc = "done"
    /\ LET hc == returned[1]
           cs == returned[2]
       IN  /\ hc_counts' = [hc_counts EXCEPT ![hc] = @ + 1]
           /\ examples' = IF hc >= min_hc /\ hc < max_coronas
                          THEN Append(examples, Example(hc, search_poly, cs))
                          ELSE examples
    /\ search_pc' = "loop"
    /\ FindCoronasOver
    /\ UNCHANGED <<search, search_n, target_hc, min_hc, fixed_polys, search_seen,
                   search_poly, printed, find_calls>>
    /\ UNCHANGED <<canonVars, genVars, ctorVars, gridVars, formulaVars>>

\* search_high_heesch: the loop is over; print the distribution, one line
\* for each key of hc_counts, and return high_hc_examples
SearchHighHeeschReturn ==
    /\ search = "search_high_heesch"
    /\ search_pc = "loop"
    /\ fixed_polys = {}
    /\ printed' = {[hc |-> hc, count |-> hc_counts[hc],
                    tiler |-> IF hc >= max_coronas THEN "(tiles plane)" ELSE ""]
                   : hc \in {k \in DOMAIN hc_counts : hc_counts[k] > 0}}
    /\ search_pc' = "done"
    /\ UNCHANGED <<search, search_n, target_hc, min_hc, fixed_polys, search_seen,
                   search_poly, examples, hc_counts, find_calls>>
    /\ UNCHANGED <<engineVars, canonVars, genVars, ctorVars, gridVars, formulaVars>>

SearchNext ==
    \/ SearchPolyiamondsEnter
    \/ SearchPolyiamondsIterate
    \/ SearchPolyiamondsRecord
    \/ SearchPolyiamondsReturn
    \/ SearchHighHeeschEnter
    \/ SearchHighHeeschIterate
    \/ SearchHighHeeschRecord
    \/ SearchHighHeeschReturn
    \/ FindCoronasEnter
    \/ CoronaRound
    \/ FindCoronasReturn

SearchSpec == SearchInit /\ [][SearchNext]_vars

-----------------------------------------------------------------------------
(* The functions of grid.py on their own: neighbors and the cell rotations on
   the cells of a window, boundary and canonical_position on the sets of at
   most MaxGridCells cells of a window *)

MaxCoord == 2

MaxGridCells == 2

MaxTurns == 6

GridWindow == (-MaxCoord..MaxCoord) \X (-MaxCoord..MaxCoord)

GridSets == {cells \in SUBSET CtorWindow : Cardinality(cells) <= MaxGridCells}

GridInit ==
    /\ EngineIdle
    /\ CanonIdle
    /\ GenIdle
    /\ CtorIdle
    /\ SearchIdle
    /\ FormulaIdle
    /\ g_turns = 0
    /\ g_out = <<>>
    /\ \/ /\ g_op = "cells"
          /\ g_cell \in GridWindow
          /\ g_cell2 \in GridWindow
          /\ g_cells = {}
          /\ g_cells2 = {}
       \/ /\ g_op = "sets"
          /\ g_cell = <<0, 0>>
          /\ g_cell2 = <<0, 0>>
          /\ g_cells \in GridSets
          /\ g_cells2 \in GridSets

\* cell.neighbors(), for both cells
NeighborsCall ==
    /\ g_op = "cells"
    /\ g_op' = "neighbors"
    /\ g_out' = <<NeighborList(g_cell), NeighborList(g_cell2)>>
    /\ UNCHANGED <<g_cell, g_cell2, g_cells, g_cells2, g_turns>>
    /\ UNCHANGED <<engineVars, canonVars, genVars, ctorVars, searchVars, formulaVars>>

\* TriangularGrid.boundary(cells)
BoundaryCall ==
    /\ g_op = "sets"
    /\ g_op' = "boundary"
    /\ g_out' = Boundary(g_cells)
    /\ UNCHANGED <<g_cell, g_cell2, g_cells, g_cells2, g_turns>>
    /\ UNCHANGED <<engineVars, canonVars, genVars, ctorVars, searchVars, formulaVars>>

\* TriangularGrid.canonical_position(cells), for both sets
CanonicalPositionCall ==
    /\ g_op = "sets"
    /\ g_op' = "canonical_position"
    /\ g_out' = <<CanonicalPosition(g_cells), CanonicalPosition(g_cells2)>>
    /\ UNCHANGED <<g_cell, g_cell2, g_cells, g_cells2, g_turns>>
    /\ UNCHANGED <<engineVars, canonVars, genVars, ctorVars, searchVars, formulaVars>>

\* TriangularGrid.rotate_60, applied to both cells, and again to what it
\* returned
Rotate60Call ==
    /\ g_op \in {"cells", "rotate_60"}
    /\ g_turns < MaxTurns
    /\ g_op' = "rotate_60"
    /\ g_turns' = g_turns + 1
    /\ g_out' = IF g_op = "cells"
                THEN <<CellRotate60(g_cell), CellRotate60(g_cell2)>>
                ELSE <<CellRotate60(g_out[1]), CellRotate60(g_out[2])>>
    /\ UNCHANGED <<g_cell, g_cell2, g_cells, g_cells2>>
    /\ UNCHANGED <<engineVars, canonVars, genVars, ctorVars, searchVars, formulaVars>>

\* TriangularGrid.rotate_180, applied to both cells
Rotate180Call ==
    /\ g_op = "cells"
    /\ g_op' = "rotate_180"
    /\ g_out' = <<CellRotate180(g_cell), CellRotate180(g_cell2)>>
    /\ UNCHANGED <<g_cell, g_cell2, g_cells, g_cells2, g_turns>>
    /\ UNCHANGED <<engineVars, canonVars, genVars, ctorVars, searchVars, formulaVars>>

GridNext ==
    \/ NeighborsCall
    \/ BoundaryCall
    \/ CanonicalPositionCall
    \/ Rotate60Call
    \/ Rotate180Call

GridSpec == GridInit /\ [][GridNext]_vars

-----------------------------------------------------------------------------
(* build_sat_formula on its own, followed by the solver: every list of at most
   MaxPlacements placements made of the cells of FormulaCells, with every
   boundary made of them. Each position of the list is a Placement object of
   its own, as in the list find_valid_placements returns. *)

MaxPlacements == 3

FormulaCells == {<<0, 0>>, <<1, 0>>, <<2, 0>>}

FormulaPlacements ==
    {Placement(cells, 0, 0, 0) : cells \in (SUBSET FormulaCells) \ {{}}}

PlacementLists == UNION {[1..k -> FormulaPlacements] : k \in 0..MaxPlacements}

FormulaInit ==
    /\ EngineIdle
    /\ CanonIdle
    /\ GenIdle
    /\ CtorIdle
    /\ SearchIdle
    /\ GridIdle
    /\ f_pc = "input"
    /\ f_placements \in PlacementLists
    /\ f_boundary \in SUBSET FormulaCells
    /\ f_formula = <<>>
    /\ f_model = {}

\* formula, var_to_placement, cell_to_vars = build_sat_formula(placements,
\* boundary, require_complete=True)
BuildSatFormulaCall ==
    /\ f_pc = "input"
    /\ f_pc' = "built"
    /\ f_formula' = BuildSatFormula(f_placements, f_boundary, TRUE)
    /\ UNCHANGED <<f_placements, f_boundary, f_model>>
    /\ UNCHANGED <<engineVars, canonVars, genVars, ctorVars, searchVars, gridVars>>

\* solver.solve(), and solver.get_model() when it is true
SolverSolve ==
    /\ f_pc = "built"
    /\ LET models == SatModels(f_formula.clauses, Len(f_placements))
       IN  IF models = {}
           THEN f_pc' = "unsat" /\ f_model' = {}
           ELSE f_pc' = "sat" /\ f_model' \in models
    /\ UNCHANGED <<f_placements, f_boundary, f_formula>>
    /\ UNCHANGED <<engineVars, canonVars, genVars, ctorVars, searchVars, gridVars>>

FormulaNext ==
    \/ BuildSatFormulaCall
    \/ SolverSolve

FormulaSpec == FormulaInit /\ [][FormulaNext]_vars

-----------------------------------------------------------------------------
(* The geometry the properties are measured against: the twelve symmetries of
   the triangular lattice taken exactly, on cell centres in the integer units
   of CellToCartesian, about the lattice vertex at <<2, 0>> *)

Centre(cell) == CellToCartesian(cell)

\* the cell whose centre is P
CellAt(P) ==
    IF P[2] % 6 = 2 THEN <<P[1] \div 2, (P[2] - 2) \div 6>>
    ELSE <<P[1] \div 2, (P[2] - 4) \div 6>>

\* a 60 degree clockwise turn about the vertex <<2, 0>>
Turn(P) == <<2 + ((P[1] - 2) + P[2]) \div 2, (P[2] - 3 * (P[1] - 2)) \div 2>>

Mirror(P) == <<-P[1], P[2]>>

RECURSIVE TurnTimes(_, _)
TurnTimes(P, k) == IF k = 0 THEN P ELSE TurnTimes(Turn(P), k - 1)

SymmetryImages(cells) ==
    {{CellAt(TurnTimes(Centre(c), k)) : c \in cells} : k \in 0..5}
    \cup {{CellAt(Mirror(TurnTimes(Centre(c), k))) : c \in cells} : k \in 0..5}

MaxX(cells) == CHOOSE m \in {c[1] : c \in cells} : \A c \in cells : c[1] <= m

MaxY(cells) == CHOOSE m \in {c[2] : c \in cells} : \A c \in cells : c[2] <= m

\* every even-parity translate of image that can share a cell with region
EvenTranslatesNear(image, region) ==
    {Translate(image, d[1], d[2]) :
        d \in {e \in ((MinX(region) - MaxX(image))..(MaxX(region) - MinX(image)))
                     \X ((MinY(region) - MaxY(image))..(MaxY(region) - MinY(image))) :
                 (e[1] + e[2]) % 2 = 0}}

\* b is the image of a under a symmetry followed by an even-parity translation
Congruent(a, b) ==
    \E image \in SymmetryImages(a) :
        LET dx == FirstCell(b)[1] - FirstCell(image)[1]
            dy == FirstCell(b)[2] - FirstCell(image)[2]
        IN  (dx + dy) % 2 = 0 /\ Translate(image, dx, dy) = b

-----------------------------------------------------------------------------
(* Properties of the corona engine, under Spec *)

\* C1: whenever solve_corona returns a list of placements, they are pairwise
\* cell-disjoint, each is disjoint from the occupied set it was given, and
\* together they contain every cell of the boundary it was given
C1_CoronaIsValid ==
    (call.made /\ call.result.found) =>
        LET corona == call.result.corona
        IN  /\ \A i, j \in 1..Len(corona) :
                  i # j => corona[i].cells \cap corona[j].cells = {}
            /\ \A i \in 1..Len(corona) : corona[i].cells \cap call.occupied = {}
            /\ call.boundary \subseteq CoronaCells(corona)

\* a second-round corona of several placements has been returned
C1_Witness ==
    /\ call.made
    /\ call.result.found
    /\ Len(call.result.corona) >= 2
    /\ call.occupied # polyiamond

\* C2: the number returned is the maximum number of successive complete
\* coronas (up to the cap): it is at least the number of coronas any other
\* execution on the same shape and cap has built
C2_ReturnsMaximum ==
    pc = "done" => \A hc \in earlier : ComputeHeeschNumber >= hc

\* C3: rounds 1, 2, ... are attempted in order up to the cap, none after a
\* failed one; the returned number is the length of the returned list, is the
\* number of rounds before the failed one, or the cap if none failed, and
\* lies in 0..K; for K <= 0 the result is (0, [])
C3_RoundsInOrder ==
    LET K == IF max_coronas > 0 THEN max_coronas ELSE 0
        n == Len(attempts)
    IN  /\ \A i \in 1..n : attempts[i].round = i /\ i <= K
        /\ \A i \in 1..(n - 1) : attempts[i].found
        /\ pc = "loop" => \A i \in 1..n : attempts[i].found
        /\ pc = "done" =>
              /\ returned[1] = Len(returned[2])
              /\ returned[1] \in 0..K
              /\ IF n > 0 /\ ~attempts[n].found
                 THEN returned[1] = n - 1
                 ELSE returned[1] = K /\ n = K
              /\ max_coronas <= 0 => returned = <<0, <<>>>>

\* find_coronas has returned after a failed round that was not the last the
\* cap allows
C3_Witness ==
    /\ pc = "done"
    /\ Len(attempts) < max_coronas
    /\ ~attempts[Len(attempts)].found
    /\ returned[1] = Len(attempts) - 1

\* C4: for a fixed shape and cap the returned Heesch number is the same
\* whichever model the SAT back end returns in each round: every execution
\* returns what the earlier ones returned
C4_SameInEveryRun ==
    pc = "done" => \A hc \in earlier : ComputeHeeschNumber = hc

\* all_transformations() of each shape find_coronas is run on
InputTransformations ==
    {<<shape, AllTransformations(shape)>> :
        shape \in {input[1] : input \in Inputs} \cup PlacementShapes}

\* C5: every placement find_valid_placements returns has |S| cells, is
\* disjoint from the occupied set, contains a boundary cell, and is
\* transformation number transform_id (0..11) of S moved by its recorded
\* (dx, dy), with dx + dy even
C5_PlacementsAreValid ==
    call.made =>
        LET transforms == (CHOOSE e \in InputTransformations : e[1] = polyiamond)[2]
        IN  \A i \in 1..Len(call.placements) :
                LET p == call.placements[i]
                IN  /\ Cardinality(p.cells) = Cardinality(polyiamond)
                    /\ p.cells \cap call.occupied = {}
                    /\ p.cells \cap call.boundary # {}
                    /\ p.transform_id \in 0..11
                    /\ p.cells = Translate(transforms[p.transform_id + 1], p.dx, p.dy)
                    /\ (p.dx + p.dy) % 2 = 0

\* the candidates around a region of several copies include a translated
\* copy of the last of the twelve transformations
C5_Witness ==
    /\ call.made
    /\ call.occupied # polyiamond
    /\ \E i \in 1..Len(call.placements) :
          /\ call.placements[i].transform_id = 11
          /\ call.placements[i].dx # 0
          /\ call.placements[i].dy # 0

\* the twelve images of each shape find_coronas is run on
InputImages ==
    {<<shape, SymmetryImages(shape)>> :
        shape \in {input[1] : input \in Inputs} \cup PlacementShapes}

\* C6: find_valid_placements returns every even-parity translate of one of
\* the twelve images of S that is disjoint from the occupied set and meets the
\* boundary, and no two returned placements have the same cell set
C6_PlacementsAreComplete ==
    call.made =>
        LET found == {call.placements[i].cells : i \in 1..Len(call.placements)}
            images == (CHOOSE e \in InputImages : e[1] = polyiamond)[2]
        IN  /\ \A image \in images :
                  \A P \in EvenTranslatesNear(image, call.boundary) :
                      (P \cap call.occupied = {} /\ P \cap call.boundary # {})
                          => P \in found
            /\ \A i, j \in 1..Len(call.placements) :
                  PlacementEq(call.placements[i], call.placements[j]) => i = j

\* the candidates around a region of several copies of a shape without
\* symmetry: each of the twelve transformations contributes some
C6_Witness ==
    /\ call.made
    /\ call.occupied # polyiamond
    /\ {call.placements[i].transform_id : i \in 1..Len(call.placements)} = 0..11

\* C7: in find_coronas the occupied region is the disjoint union of the base
\* shape and of every placement of every corona found so far, so it has
\* |S| * (1 + number of placements) cells, and it contains the occupied region
\* the latest round started from
C7_OccupiedIsDisjointUnion ==
    pc \in {"loop", "done"} =>
        LET pieces == {<<k, i>> \in (1..Len(coronas)) \X (1..(Len(call.placements) + 1)) :
                         i <= Len(coronas[k])}
            total  == Cardinality(pieces)
        IN  /\ occupied = polyiamond \cup UNION {coronas[k][i].cells : <<k, i>> \in pieces}
            /\ Cardinality(occupied) = Cardinality(polyiamond) * (1 + total)
            /\ call.made => call.occupied \subseteq occupied

\* two coronas of a shape of several cells have been added to the region
C7_Witness ==
    /\ pc = "loop"
    /\ Len(coronas) = 2
    /\ Cardinality(polyiamond) > 1
    /\ call.occupied # occupied

CoronaSizes == [k \in 1..Len(returned[2]) |-> Len(returned[2][k])]

\* C8: for the 1-iamond {(0,0)} with cap 3, find_coronas returns 3 and the
\* three coronas have 3, 6 and 9 placements
C8_MoniamondRings ==
    (pc = "done" /\ polyiamond = Moniamond /\ max_coronas = 3) =>
        (returned[1] = 3 /\ CoronaSizes = <<3, 6, 9>>)

\* as first stated: the three coronas have 3, 9 and 15 placements
C8_MoniamondRingsAsStated ==
    (pc = "done" /\ polyiamond = Moniamond /\ max_coronas = 3) =>
        (returned[1] = 3 /\ CoronaSizes = <<3, 9, 15>>)

\* find_coronas has returned for the 1-iamond with cap 3
C8_Witness ==
    /\ pc = "done"
    /\ polyiamond = Moniamond
    /\ max_coronas = 3
    /\ Len(returned[2]) = 3

-----------------------------------------------------------------------------
(* Properties of the generator, under GenSpec *)

FreeCounts == <<1, 1, 1, 3, 4, 12, 24, 66, 160, 448>>

FreeCountsAsStated == <<1, 1, 1, 4, 6, 12, 24, 66, 160, 448>>

-----------------------------------------------------------------------------
(* Properties of canonical_cells, under CanonSpec *)

\* C9: canonical_cells is constant on each symmetry orbit and separates
\* orbits: rotating or reflecting a polyiamond leaves its canonical cells as
\* they are, and two polyiamonds have equal canonical cells exactly when one
\* is the image of the other under one of the twelve symmetries followed by an
\* even-parity translation
C9_CanonicalCellsNameTheOrbit ==
    /\ CanonicalCells(Rotate60(p2)) = CanonicalCells(p2)
    /\ CanonicalCells(ReflectX(p2)) = CanonicalCells(p2)
    /\ AreEquivalent(p1, p2) <=> Congruent(p1, p2)

\* the same for the polyiamonds that are where the constructor puts them
C9_ForConstructedShapes ==
    p2 = CanonicalPosition(p2) => C9_CanonicalCellsNameTheOrbit

-----------------------------------------------------------------------------
(* Further properties of the generator, under GenSpec *)

\* C11: any two shapes at different positions of the list generate_polyiamonds
\* builds in free mode have different orbit canonical forms, and neither is
\* the image of the other under a symmetry and a translation
C11_NoOrbitTwice ==
    ~fixed =>
        /\ Cardinality({CanonicalCells(result[i]) : i \in 1..Len(result)}) = Len(result)
        /\ \A i, j \in 1..Len(result) : i # j => ~Congruent(result[i], result[j])

\* the four free 5-iamonds have been returned
C11_Witness ==
    /\ gen_pc = "done"
    /\ ~fixed
    /\ gen_n = 5
    /\ Len(result) = 4

\* C12: every Polyiamond generate_polyiamonds returns, in free or fixed mode,
\* is connected under the neighbor relation, has exactly n cells, and holds
\* cells that canonical_position leaves as they are
C12_GeneratedShapesAreWellFormed ==
    \A i \in 1..Len(result) :
        /\ IsConnected(result[i])
        /\ \A c \in result[i] :
              result[i] = {c} \/ \E d \in result[i] : d \in Neighbors(c)
        /\ Cardinality(result[i]) = gen_n
        /\ CanonicalPosition(result[i]) = result[i]

\* the fixed 5-iamonds have been returned, among them one that the parity of
\* the translation keeps one column away from x = 0
C12_Witness ==
    /\ gen_pc = "done"
    /\ fixed
    /\ gen_n = 5
    /\ Len(result) = Cardinality(fixed_shapes)
    /\ \E i \in 1..Len(result) : MinX(result[i]) = 1

-----------------------------------------------------------------------------
(* Properties of the constructor, under CtorSpec *)

\* C13: the constructor rejects an empty cell set and a cell set that is not
\* connected under the neighbor relation: once it has run on such an argument
\* there is no object, and no object it produced holds an empty or a
\* disconnected cell set.
C13_ConstructorRejects ==
    ctor_pc = "built" =>
        /\ (ctor_cells = {} \/ ~IsConnected(ctor_cells)) => ~ctor_self.built
        /\ ctor_self.built => ctor_self.cells # {} /\ IsConnected(ctor_self.cells)

-----------------------------------------------------------------------------
(* Properties of solve_corona's use of the solver, under Spec and FaultSpec *)

\* the latest solve_corona call was given a boundary with a cell that none of
\* its candidates contains
UncoverableCell ==
    \E b \in call.boundary :
        \A i \in 1..Len(call.placements) : b \notin call.placements[i].cells

\* C14: when some cell of the boundary is in no candidate placement (no
\* candidate at all included), solve_corona returns None and creates no
\* solver; so when this happens with the first boundary, that of the shape
\* itself, find_coronas returns 0 and no solver has been created.
C14_UncoverableCellMeansNoSolver ==
    /\ (call.made /\ UncoverableCell) => ~call.solved /\ call.result = None
    /\ (call.made /\ UncoverableCell /\ call.occupied = polyiamond) =>
          /\ pc = "done"
          /\ returned = <<0, <<>> >>
          /\ solvers.created = 0

C14_Witness ==
    /\ pc = "done"
    /\ polyiamond = NotchedEnneiamond
    /\ max_coronas = 2
    /\ call.made /\ call.occupied = polyiamond /\ UncoverableCell
    /\ call.placements # <<>> /\ ~call.solved
    /\ ComputeHeeschNumber = 0
    /\ solvers.created = 0

\* C15: every solver created inside a solve_corona call has been deleted when
\* the call is over, whether it ended with a corona, without one, or because
\* the back end failed.
C15_NoHandleStaysOpen == solvers.deleted = solvers.created

\* C16: when the back end fails in corona round k, find_coronas returns k - 1
\* with the coronas of rounds 1..k-1 and a flag set, and the flag is not set
\* when it returns otherwise.
C16_FailureGivesFlaggedPartialResult ==
    /\ pc = "raised" =>
          /\ Len(returned) = 3
          /\ returned[1] = corona_num - 1
          /\ returned[2] = coronas
          /\ returned[3] = TRUE
    /\ pc = "done" => (Len(returned) = 3 => returned[3] = FALSE)

-----------------------------------------------------------------------------
(* Properties of the search drivers, under SearchSpec *)

\* the number of entries stored under the key hc
Emitted(hc) == Cardinality({i \in 1..Len(examples) : examples[i].hc = hc})

\* C17: search_high_heesch stores as an example every shape it analysed whose
\* Heesch number is at least min_hc, and none whose Heesch number is below
\* min_hc.
C17_EmitsAllAtLeastMinHc ==
    (search = "search_high_heesch" /\ search_pc \in {"loop", "done"}) =>
        \A hc \in DOMAIN hc_counts :
            Emitted(hc) = IF hc >= min_hc THEN hc_counts[hc] ELSE 0

\* C18: in both drivers find_coronas is called at most once for each orbit
\* canonical key, the keys it was called for are the keys of the seen set, a
\* step never removes a key from the seen set and calls find_coronas only for
\* a key that was not in it, and when the loop is over the seen set has as
\* many keys as there are free n-iamonds.
C18_OncePerOrbit ==
    /\ [](/\ \A i, j \in 1..Len(find_calls) : i # j => find_calls[i] # find_calls[j]
          /\ {find_calls[i] : i \in 1..Len(find_calls)} = search_seen
          /\ search_pc = "done" =>
                Cardinality(search_seen) = IF search_n = 0 THEN 0 ELSE FreeCounts[search_n])
    /\ [][/\ search_seen \subseteq search_seen'
          /\ find_calls' # find_calls =>
                /\ Len(find_calls') = Len(find_calls) + 1
                /\ find_calls'[Len(find_calls')] \notin search_seen
                /\ find_calls' = Append(find_calls, find_calls'[Len(find_calls')])
                /\ search_seen' = search_seen \cup {find_calls'[Len(find_calls')]}]_vars

\* the 4-iamonds have been searched: three calls, and fixed shapes passed over
C18_Witness ==
    /\ search_pc = "done"
    /\ search_n = 4
    /\ max_coronas = 1
    /\ Len(find_calls) = 3
    /\ Cardinality(search_seen) = 3
    /\ Cardinality(GenerateFixedPolyiamonds(4)) > 3

\* C19: no line of a report labels a shape that reached the cap as tiling the
\* plane, and what the drivers store for such a shape is the cap itself.
C19_CapIsNotTiling ==
    /\ \A line \in printed : line.tiler # "(tiles plane)"
    /\ \A i \in 1..Len(examples) : examples[i].hc <= max_coronas

-----------------------------------------------------------------------------
(* Properties of the functions of grid.py, under GridSpec *)

\* B is A moved by a translation (dx, dy) with dx + dy even
EvenTranslate(A, B) ==
    \E dx, dy \in -4..4 : (dx + dy) % 2 = 0 /\ B = Translate(A, dx, dy)

\* C22: canonical_position(A) is A moved by a translation with dx + dy even,
\* which keeps the orientation of every cell and keeps a connected set
\* connected; canonical_position(A) = canonical_position(B) exactly when B is
\* an even-parity translate of A; and canonical_position is idempotent.
C22_CanonicalPositionIsEvenTranslate ==
    g_op = "canonical_position" =>
        /\ \E dx, dy \in -4..4 :
              /\ (dx + dy) % 2 = 0
              /\ g_out[1] = Translate(g_cells, dx, dy)
              /\ \A c \in g_cells : IsUp(<<c[1] + dx, c[2] + dy>>) = IsUp(c)
        /\ IsConnected(g_cells) => IsConnected(g_out[1])
        /\ (g_out[1] = g_out[2]) <=> EvenTranslate(g_cells, g_cells2)
        /\ CanonicalPosition(g_out[1]) = g_out[1]

\* two different connected sets of two cells with the same canonical
\* position, whose minimum x is 1
C22_Witness ==
    /\ g_op = "canonical_position"
    /\ Cardinality(g_cells) = 2
    /\ IsConnected(g_cells)
    /\ g_cells # g_cells2
    /\ g_out[1] = g_out[2]
    /\ g_out[1] # g_cells
    /\ MinX(g_out[1]) = 1

\* the cells a boundary of a set of GridSets can hold
BoundaryWindow == (-2..3) \X (-2..2)

\* C23: boundary(O) is the set of the cells that are not in O and have a
\* neighbor in O, and it is not empty when O is not empty.
C23_BoundaryIsOutsideNeighbors ==
    g_op = "boundary" =>
        /\ g_out = {c \in BoundaryWindow : c \notin g_cells /\ Neighbors(c) \cap g_cells # {}}
        /\ g_cells # {} => g_out # {}

\* the boundary of two neighboring cells: four cells, the two themselves left out
C23_Witness ==
    /\ g_op = "boundary"
    /\ Cardinality(g_cells) = 2
    /\ IsConnected(g_cells)
    /\ Cardinality(g_out) = 4
    /\ g_out \cap g_cells = {}

\* C24: a cell has three distinct neighbors, each of the orientation opposite
\* to its own, and a is a neighbor of b exactly when b is a neighbor of a.
C24_ThreeOppositeNeighborsSymmetric ==
    g_op = "neighbors" =>
        LET of1 == {g_out[1][i] : i \in 1..Len(g_out[1])}
            of2 == {g_out[2][i] : i \in 1..Len(g_out[2])}
        IN  /\ Len(g_out[1]) = 3
            /\ Cardinality(of1) = 3
            /\ \A n \in of1 : IsUp(n) # IsUp(g_cell) /\ IsDown(n) # IsDown(g_cell)
            /\ g_cell2 \in of1 <=> g_cell \in of2

\* a down triangle with a negative coordinate and the neighbor above it
C24_Witness ==
    /\ g_op = "neighbors"
    /\ IsDown(g_cell)
    /\ g_cell[1] < 0
    /\ g_cell2 = <<g_cell[1], g_cell[2] + 1>>
    /\ g_cell2 = g_out[1][3]
    /\ g_cell = g_out[2][3]

\* C25: rotate_60 is one-to-one on cells, sends neighboring cells to
\* neighboring cells, returns every cell to itself after six applications,
\* and rotate_180 is the half turn about the origin, which takes the cell
\* with centre (cx, cy) to the cell with centre (-cx, -cy).
C25_Rotate60IsLatticeIsometry ==
    /\ (g_op = "rotate_60" /\ g_turns = 1) =>
          /\ g_cell # g_cell2 => g_out[1] # g_out[2]
          /\ g_cell2 \in Neighbors(g_cell) => g_out[2] \in Neighbors(g_out[1])
    /\ (g_op = "rotate_60" /\ g_turns = 6) => g_out = <<g_cell, g_cell2>>
    /\ g_op = "rotate_180" => g_out[1] = <<-g_cell[1], -g_cell[2] - 1>>

-----------------------------------------------------------------------------
(* Properties of build_sat_formula, under FormulaSpec *)

\* the assignment that makes exactly the variables of T true satisfies every
\* clause of the formula built
SatisfiesFormula(T) ==
    \A clause \in f_formula.clauses :
        \E l \in clause : IF l > 0 THEN l \in T ELSE -l \notin T

\* the placements of the variables of T are pairwise cell-disjoint and every
\* cell of the boundary lies in one of them
CompleteCorona(T) ==
    /\ \A v, w \in T : v # w => f_placements[v].cells \cap f_placements[w].cells = {}
    /\ \A b \in f_boundary : \E v \in T : b \in f_placements[v].cells

\* C21: an assignment satisfies every clause of the formula built with
\* require_complete=True exactly when the placements of its true variables are
\* pairwise cell-disjoint and cover the boundary; so the solver answers UNSAT
\* exactly when no subset of the placements is a complete corona, and the
\* model it returns otherwise names one.
C21_FormulaMeansCompleteCorona ==
    f_pc \in {"built", "sat", "unsat"} =>
        LET subsets == SUBSET (1..Len(f_placements))
        IN  /\ f_formula.var_to_placement = f_placements
            /\ \A T \in subsets : SatisfiesFormula(T) <=> CompleteCorona(T)
            /\ f_pc = "unsat" => \A T \in subsets : ~CompleteCorona(T)
            /\ f_pc = "sat" => f_model \in subsets /\ CompleteCorona(f_model)

\* three placements of which two overlap, and a model of two disjoint ones
\* that cover the whole boundary
C21_Witness ==
    /\ f_pc = "sat"
    /\ Len(f_placements) = 3
    /\ f_boundary = FormulaCells
    /\ f_placements[1].cells \cap f_placements[2].cells # {}
    /\ Cardinality(f_model) = 2
    /\ CompleteCorona(f_model)

====
